---- MODULE Spec2Model ----
(***************************************************************************)
(* Model of gmargaritis/airfare_statistics.                                *)
(*                                                                         *)
(*   worker.js     the collection run: processAirportGroups,               *)
(*                 handleFlightData, getAirports, getFlightData,           *)
(*                 getFlights, addFlights, storeData                       *)
(*   analytics.js  the statistics: getStatistics, getData, getResults,     *)
(*                 calcMean, calcMedian, calcVariance, calcRange,          *)
(*                 calcStandardDeviation, prepPrices                       *)
(*                                                                         *)
(* One action is one callback of the event loop: everything the code runs  *)
(* between two awaited events.  JavaScript's undefined is a record with    *)
(* def = FALSE; a JavaScript number that is the quotient of two integers   *)
(* is an exact fraction, 0/0 is NaN.                                       *)
(***************************************************************************)
EXTENDS Integers, Sequences, FiniteSets, TLC

VARIABLES
    pc,                \* worker.js: the callback the run is waiting for
    groupIndex,        \* worker.js:29   groups of airportGroups started so far
    airportGroup,      \* worker.js:40   the group being handled
    airports,          \* worker.js:106  the (shrinking) working list
    i,                 \* worker.js:117  outer index
    j,                 \* worker.js:124  inner index
    airportsLength,    \* worker.js:114
    flightDataResult,  \* worker.js:115  rows collected for the group
    lookups,           \* worker.js:151  fare lookups issued for the group
    inFlight,          \* worker.js:186  fetch() calls not yet settled
    borrowed,          \* worker.js:5    connections taken from the pool
    inserts,           \* worker.js:236  INSERT queries issued for the group
    failure,           \* where an exception escaped, "none" if nowhere
    flights,           \* worker.js:210  addFlights: the raw fare list
    rows,              \* worker.js:210  addFlights: the rows it pushed
    called,            \* worker.js:210  addFlights has been applied
    stats,             \* analytics.js:42 rows the stored query returned
    results,           \* analytics.js:44 the summary getResults returned
    spc                \* analytics.js: position of getStatistics

vars == <<pc, groupIndex, airportGroup, airports, i, j, airportsLength,
          flightDataResult, lookups, inFlight, borrowed, inserts, failure,
          flights, rows, called, stats, results, spc>>

workerVars == <<pc, groupIndex, airportGroup, airports, i, j, airportsLength,
                flightDataResult, lookups, inFlight, inserts, failure>>
normVars == <<flights, rows, called>>
statVars == <<stats, results, spc>>

(***************************************************************************)
(* Bounds                                                                  *)
(***************************************************************************)
MaxAirports == 3      \* airports known to the catalog
MaxGroups == 2        \* airport groups of one run
MaxRows == 1          \* rows one group collects
MaxFares == 2         \* raw fare entries handed to addFlights
MaxDateLen == 4       \* characters of a raw Date field
MaxSeries == 4        \* rows of a price series
MaxPrice == 3         \* largest average price of a series

(***************************************************************************)
(* Airports and groups                                                     *)
(***************************************************************************)
IATA == <<"BER", "CDG", "MAD", "FCO", "LON", "ATH">>

Codes == {IATA[k] : k \in 1..MaxAirports}

TripTypes == {"RT", "OW"}

\* A group: its airports ("ALL" or a list of codes), its targets, its trip type.
AirportGroups ==
    [all : {FALSE}, airports : SUBSET Codes, targets : SUBSET Codes, tripType : TripTypes]
    \cup [all : {TRUE}, airports : {{}}, targets : SUBSET Codes, tripType : TripTypes]

NoGroup == [all |-> FALSE, airports |-> {}, targets |-> {}, tripType |-> "RT"]

\* The codes the catalog query selects: every airport, or FIND_IN_SET(IATA, ?).
selected(group) == IF group.all THEN Codes ELSE group.airports

\* The orders in which the catalog may return a set of airports.
Orders(S) == {s \in [1..Cardinality(S) -> S] : \A a, b \in 1..Cardinality(S) : a # b => s[a] # s[b]}

\* getAirports' forEach: every row gets target = targets.includes(IATA).
airportList(result, group) ==
    [k \in 1..Len(result) |-> [IATA |-> result[k], target |-> result[k] \in group.targets]]

hasTargets(group) == group.targets # {}

(***************************************************************************)
(* Array.prototype.sort with the comparator of worker.js:108-112           *)
(***************************************************************************)
\* The comparator reads its first argument only: -1 for a non-target, and
\* undefined otherwise, which the engine takes as 0.
comparator(a, b) == IF a.target # TRUE THEN 0 - 1 ELSE 0

Reverse(s) == [k \in 1..Len(s) |-> s[Len(s) + 1 - k]]

\* The engine is V8 (Node 11 and later): TimSort, here on an array shorter than its minimum run
\* length: CountAndMakeRun, then BinaryInsertionSort of the rest.
RECURSIVE RunLength(_, _, _)
RunLength(a, descending, k) ==
    IF k > Len(a) THEN k - 1
    ELSE LET order == comparator(a[k], a[k - 1])
         IN  IF descending
             THEN IF order >= 0 THEN k - 1 ELSE RunLength(a, descending, k + 1)
             ELSE IF order < 0 THEN k - 1 ELSE RunLength(a, descending, k + 1)

RECURSIVE BinarySearch(_, _, _, _)
BinarySearch(a, pivot, left, right) ==
    IF left < right
    THEN LET mid == left + ((right - left) \div 2)
         IN  IF comparator(pivot, a[mid + 1]) < 0
             THEN BinarySearch(a, pivot, left, mid)
             ELSE BinarySearch(a, pivot, mid + 1, right)
    ELSE left

RECURSIVE BinaryInsertionSort(_, _)
BinaryInsertionSort(a, start) ==
    IF start >= Len(a) THEN a
    ELSE LET pivot == a[start + 1]
             left == BinarySearch(a, pivot, 0, start)
         IN  BinaryInsertionSort(
                 SubSeq(a, 1, left) \o <<pivot>> \o SubSeq(a, left + 1, start)
                     \o SubSeq(a, start + 2, Len(a)),
                 start + 1)

TimSort(a) ==
    IF Len(a) < 2 THEN a
    ELSE LET descending == comparator(a[2], a[1]) < 0
             run == RunLength(a, descending, 3)
             made == IF descending
                     THEN Reverse(SubSeq(a, 1, run)) \o SubSeq(a, run + 1, Len(a))
                     ELSE a
         IN  BinaryInsertionSort(made, run)

\* airports.sort(comparator).  The comparator is not a consistent ordering,
\* so the result is what the engine's algorithm makes of it.
sort(a) == TimSort(a)

(***************************************************************************)
(* getFlightData: the two loops, from one await to the next                *)
(***************************************************************************)
NoStop == [kind |-> "resolve", airports |-> <<>>, i |-> 0, j |-> 0,
           departure |-> "", arrival |-> ""]

RECURSIVE innerLoop(_, _, _, _, _, _)
RECURSIVE outerLoop(_, _, _, _, _)

\* The inner loop without its `if (j == index) continue`.
RECURSIVE innerLoopWithoutSelfSkip(_, _, _, _, _, _)
innerLoopWithoutSelfSkip(ap, ii, jj, n, tripType, targets) ==
    IF jj < Len(ap)
    THEN LET index == IF tripType = "RT" THEN 0 ELSE ii
         IN  IF ap[jj + 1].target # TRUE /\ targets = TRUE
             THEN innerLoopWithoutSelfSkip(ap, ii, jj + 1, n, tripType, targets)
             ELSE [kind |-> "getFlights", airports |-> ap, i |-> ii, j |-> jj,
                   departure |-> ap[index + 1].IATA, arrival |-> ap[jj + 1].IATA]
    ELSE outerLoop(IF tripType = "RT" THEN Tail(ap) ELSE ap, ii + 1, n, tripType, targets)

\* The outer loop without its break on a target pivot.
outerLoopWithoutBreak(ap, ii, n, tripType, targets) ==
    IF ii < n
    THEN LET index == IF tripType = "RT" THEN 0 ELSE ii
         IN  IF index >= Len(ap)
             THEN [NoStop EXCEPT !.kind = "throw", !.airports = ap, !.i = ii]
             ELSE IF Len(ap) = 0
             THEN [NoStop EXCEPT !.airports = ap, !.i = ii]
             ELSE innerLoop(ap, ii, 0, n, tripType, targets)
    ELSE [NoStop EXCEPT !.airports = ap, !.i = ii]

\* worker.js:124-157, entered at the test j < airports.length.
innerLoop(ap, ii, jj, n, tripType, targets) ==
    IF jj < Len(ap)
    THEN LET index == IF tripType = "RT" THEN 0 ELSE ii
         IN  IF jj = index
             THEN innerLoop(ap, ii, jj + 1, n, tripType, targets)
             ELSE IF ap[jj + 1].target # TRUE /\ targets = TRUE
             THEN innerLoop(ap, ii, jj + 1, n, tripType, targets)
             ELSE [kind |-> "getFlights", airports |-> ap, i |-> ii, j |-> jj,
                   departure |-> ap[index + 1].IATA, arrival |-> ap[jj + 1].IATA]
    ELSE outerLoop(IF tripType = "RT" THEN Tail(ap) ELSE ap, ii + 1, n, tripType, targets)

\* worker.js:117-122, entered at the test i < airportsLength.
outerLoop(ap, ii, n, tripType, targets) ==
    IF ii < n
    THEN LET index == IF tripType = "RT" THEN 0 ELSE ii
         IN  IF index >= Len(ap)
             THEN [NoStop EXCEPT !.kind = "throw", !.airports = ap, !.i = ii]
             ELSE IF Len(ap) = 0 \/ ap[index + 1].target = TRUE
             THEN [NoStop EXCEPT !.airports = ap, !.i = ii]
             ELSE innerLoop(ap, ii, 0, n, tripType, targets)
    ELSE [NoStop EXCEPT !.airports = ap, !.i = ii]

(***************************************************************************)
(* getFlights and addFlights                                               *)
(***************************************************************************)
Some(v) == [def |-> TRUE, val |-> v]
NoArray == [def |-> FALSE, val |-> <<>>]
NoNumber == [def |-> FALSE, val |-> 0]
NoString == [def |-> FALSE, val |-> <<>>]

DigitChars == <<"0", "1", "2", "3", "4", "5", "6", "7", "8", "9">>
IsDigit(c) == \E d \in 1..10 : DigitChars[d] = c
DigitValue(c) == (CHOOSE d \in 1..10 : DigitChars[d] = c) - 1

\* /\d+/.exec(str): the first run of digits, undefined (null) when there is none.
RECURSIVE digitsFrom(_, _)
digitsFrom(str, k) ==
    IF k <= Len(str) /\ IsDigit(str[k]) THEN <<str[k]>> \o digitsFrom(str, k + 1) ELSE <<>>

RECURSIVE firstDigit(_, _)
firstDigit(str, k) ==
    IF k > Len(str) THEN 0 ELSE IF IsDigit(str[k]) THEN k ELSE firstDigit(str, k + 1)

exec(date) ==
    \* a missing Date is matched as the text "undefined", which has no digit
    IF ~date.def \/ firstDigit(date.val, 1) = 0 THEN NoString
    ELSE Some(digitsFrom(date.val, firstDigit(date.val, 1)))

\* Number(match): the digits read in base ten; Number(null) is 0.
RECURSIVE decimal(_)
decimal(digits) ==
    IF digits = <<>> THEN 0
    ELSE 10 * decimal(SubSeq(digits, 1, Len(digits) - 1)) + DigitValue(digits[Len(digits)])

Number(match) == IF match.def THEN decimal(match.val) ELSE 0

MsPerSecond == 1000

\* new Date(ms).toJSON().slice(0, 19).replace("T", " "): the instant cut to
\* whole seconds, written here as its count of seconds since the epoch.
flightDateOf(flight) == Number(exec(flight.Date)) \div MsPerSecond

\* One row of the batch; record_date (the wall clock at the push) is left out.
rowOf(departure, arrival, flight, tripType) ==
    [departure |-> departure, arrival |-> arrival, price |-> flight.Price,
     flight_date |-> flightDateOf(flight), trip_type |-> tripType]

\* addFlights: threw is TRUE when flights.length is read off undefined.
addFlights(departure, arrival, fl, tripType, result) ==
    IF ~fl.def THEN [threw |-> TRUE, result |-> result]
    ELSE [threw |-> FALSE,
          result |-> IF Len(fl.val) # 0
                     THEN result \o [k \in 1..Len(fl.val) |->
                                        rowOf(departure, arrival, fl.val[k], tripType)]
                     ELSE result]

\* getFlights: a network error or a malformed body leaves both lists empty.
getFlights(response, tripType) ==
    IF response.kind # "json" THEN [Outbound |-> Some(<<>>), Inbound |-> Some(<<>>)]
    ELSE [Outbound |-> response.Outbound,
          Inbound |-> IF tripType = "RT" THEN response.Inbound ELSE Some(<<>>)]

(***************************************************************************)
(* The fare API's answers                                                  *)
(***************************************************************************)
SampleFare == [Price |-> Some(100), Date |-> Some(<<"D", "1", "6", "D">>)]

FareArrays == {NoArray, Some(<<>>), Some(<<SampleFare>>)}

\* A network error, a body that is not JSON, or a JSON body whose Outbound and
\* Inbound arrays are each there or not.
Responses ==
    [kind : {"networkError", "malformedJSON"}, Outbound : {NoArray}, Inbound : {NoArray}]
    \cup [kind : {"json"}, Outbound : FareArrays, Inbound : FareArrays]

(***************************************************************************)
(* The collection run (worker.js)                                          *)
(***************************************************************************)
InitWorker ==
    /\ pc = "idle"
    /\ groupIndex = 0
    /\ airportGroup = NoGroup
    /\ airports = <<>>
    /\ i = 0
    /\ j = 0
    /\ airportsLength = 0
    /\ flightDataResult = <<>>
    /\ lookups = <<>>
    /\ inFlight = 0
    /\ borrowed = 0
    /\ inserts = 0
    /\ failure = "none"

\* The fetch() calls open once `settled` of them have returned and the loop has
\* run on to `stop`.
openRequests(stop, settled) ==
    inFlight - settled + (IF stop.kind = "getFlights" THEN 1 ELSE 0)

\* getFlightData with getFlights(URL) not awaited: it resolves, and storeData
\* is called, while the lookup is still open.
runToWithoutAwait(stop, result, settled) ==
    /\ airports' = stop.airports
    /\ i' = stop.i
    /\ j' = stop.j
    /\ flightDataResult' = result
    /\ inFlight' = openRequests(stop, settled)
    /\ lookups' = IF stop.kind = "getFlights"
                  THEN Append(lookups, [departure |-> stop.departure, arrival |-> stop.arrival])
                  ELSE lookups
    /\ pc' = IF stop.kind = "throw" THEN "aborted" ELSE "storeDataConnection"
    /\ failure' = IF stop.kind = "throw" THEN "getFlightData" ELSE failure

\* getFlightData runs on to its next await: the next getFlights(URL), or
\* resolve(flightDataResult) and with it storeData's pool.getConnection.
runTo(stop, result, settled) ==
    /\ airports' = stop.airports
    /\ i' = stop.i
    /\ j' = stop.j
    /\ flightDataResult' = result
    /\ inFlight' = openRequests(stop, settled)
    /\ lookups' = IF stop.kind = "getFlights"
                  THEN Append(lookups, [departure |-> stop.departure, arrival |-> stop.arrival])
                  ELSE lookups
    /\ pc' = CASE stop.kind = "getFlights" -> "getFlights"
               [] stop.kind = "resolve" -> "storeDataConnection"
               [] OTHER -> "aborted"
    /\ failure' = IF stop.kind = "throw" THEN "getFlightData" ELSE failure

\* processAirportGroups takes the next group; handleFlightData calls
\* getAirports, which asks the pool for a connection.
StartGroup ==
    /\ pc = "idle"
    /\ groupIndex < MaxGroups
    /\ \E group \in AirportGroups : airportGroup' = group
    /\ groupIndex' = groupIndex + 1
    /\ pc' = "getAirportsConnection"
    /\ UNCHANGED <<airports, i, j, airportsLength, flightDataResult, lookups,
                   inFlight, borrowed, inserts, failure>>

\* getAirports' pool.getConnection callback: throw err, or issue the query.
GetAirportsConnection ==
    /\ pc = "getAirportsConnection"
    /\ \E err \in BOOLEAN :
          IF err
          THEN pc' = "aborted" /\ failure' = "getAirports" /\ borrowed' = borrowed
          ELSE pc' = "getAirportsQuery" /\ failure' = failure /\ borrowed' = borrowed + 1
    /\ UNCHANGED <<groupIndex, airportGroup, airports, i, j, airportsLength,
                   flightDataResult, lookups, inFlight, inserts>>

\* getAirports' query callback on success: release, mark the targets, resolve;
\* handleFlightData goes on into getFlightData, which sorts and runs its loops
\* to the first await.
GetAirportsResult ==
    /\ pc = "getAirportsQuery"
    /\ borrowed' = borrowed - 1
    /\ \E result \in Orders(selected(airportGroup)) :
          LET sorted == sort(airportList(result, airportGroup))
          IN  /\ airportsLength' = Len(sorted)
              /\ runTo(outerLoop(sorted, 0, Len(sorted), airportGroup.tripType,
                                 hasTargets(airportGroup)), <<>>, 0)
    /\ UNCHANGED <<groupIndex, airportGroup, inserts>>

\* getAirports' query callback on error: release, log, and JSON.parse of the
\* missing result throws out of the callback.
GetAirportsError ==
    /\ pc = "getAirportsQuery"
    /\ borrowed' = borrowed - 1
    /\ pc' = "aborted"
    /\ failure' = "getAirports"
    /\ UNCHANGED <<groupIndex, airportGroup, airports, i, j, airportsLength,
                   flightDataResult, lookups, inFlight, inserts>>

\* The rows of one answer: Inbound first (round trips only), then Outbound.
collect(stopDeparture, stopArrival, response, tripType, result) ==
    LET fl == getFlights(response, tripType)
        inbound == IF tripType = "RT"
                   THEN addFlights(stopArrival, stopDeparture, fl.Inbound, tripType, result)
                   ELSE [threw |-> FALSE, result |-> result]
    IN  IF inbound.threw THEN inbound
        ELSE addFlights(stopDeparture, stopArrival, fl.Outbound, tripType, inbound.result)

\* await getFlights(URL, tripType) returns; the rows are added and the loops
\* run on.  An exception out of addFlights leaves the promise unsettled.
FlightsResponse ==
    /\ pc = "getFlights"
    /\ \E response \in Responses :
          LET request == lookups[Len(lookups)]
              got == collect(request.departure, request.arrival, response,
                             airportGroup.tripType, flightDataResult)
          IN  /\ Len(got.result) <= MaxRows
              /\ IF got.threw
                 THEN /\ pc' = "aborted"
                      /\ failure' = "addFlights"
                      /\ flightDataResult' = got.result
                      /\ inFlight' = inFlight - 1
                      /\ UNCHANGED <<airports, i, j, lookups>>
                 ELSE runTo(innerLoop(airports, i, j + 1, airportsLength,
                                      airportGroup.tripType, hasTargets(airportGroup)),
                            got.result, 1)
    /\ UNCHANGED <<groupIndex, airportGroup, airportsLength, borrowed, inserts>>

\* storeData's pool.getConnection callback: an error is logged only, and
\* connection.query on the missing connection throws out of the callback.
StoreDataConnection ==
    /\ pc = "storeDataConnection"
    /\ \E err \in BOOLEAN :
          IF err
          THEN pc' = "aborted" /\ failure' = "storeData" /\ borrowed' = borrowed
               /\ inserts' = inserts
          ELSE pc' = "storeDataQuery" /\ failure' = failure /\ borrowed' = borrowed + 1
               /\ inserts' = inserts + 1
    /\ UNCHANGED <<groupIndex, airportGroup, airports, i, j, airportsLength,
                   flightDataResult, lookups, inFlight>>

\* storeData's query callback: reject(error), or release and resolve.  Either
\* way handleFlightData returns, its locals are gone, and
\* processAirportGroups goes on.
StoreDataResult ==
    /\ pc = "storeDataQuery"
    /\ \E error \in BOOLEAN : borrowed' = IF error THEN borrowed ELSE borrowed - 1
    /\ pc' = "idle"
    /\ airportGroup' = NoGroup
    /\ airports' = <<>>
    /\ i' = 0
    /\ j' = 0
    /\ airportsLength' = 0
    /\ flightDataResult' = <<>>
    /\ lookups' = <<>>
    /\ inserts' = 0
    /\ UNCHANGED <<groupIndex, inFlight, failure>>

\* processAirportGroups is through its list: pool.end().
PoolEnd ==
    /\ pc = "idle"
    /\ pc' = "ended"
    /\ UNCHANGED <<groupIndex, airportGroup, airports, i, j, airportsLength,
                   flightDataResult, lookups, inFlight, borrowed, inserts, failure>>

InitIdleNormalizer == flights = <<>> /\ rows = <<>> /\ called = FALSE
InitIdleStatistics == stats = <<>> /\ results = <<>> /\ spc = "idle"

Init == InitWorker /\ InitIdleNormalizer /\ InitIdleStatistics

Next ==
    \/ StartGroup /\ UNCHANGED <<normVars, statVars>>
    \/ GetAirportsConnection /\ UNCHANGED <<normVars, statVars>>
    \/ GetAirportsResult /\ UNCHANGED <<normVars, statVars>>
    \/ GetAirportsError /\ UNCHANGED <<normVars, statVars>>
    \/ FlightsResponse /\ UNCHANGED <<normVars, statVars>>
    \/ StoreDataConnection /\ UNCHANGED <<normVars, statVars>>
    \/ StoreDataResult /\ UNCHANGED <<normVars, statVars>>
    \/ PoolEnd /\ UNCHANGED <<normVars, statVars>>

Spec == Init /\ [][Next]_vars

(***************************************************************************)
(* addFlights on its own (worker.js:210-220)                               *)
(***************************************************************************)
DateChars == {"D", "1"}

DateStrings == UNION {[1..n -> DateChars] : n \in 0..MaxDateLen}

\* A raw fare entry: Price there or not, Date there or not.
RawFares == [Price : {NoNumber, Some(100)},
             Date : {NoString} \cup {Some(str) : str \in DateStrings}]

RawFareLists == UNION {[1..n -> RawFares] : n \in 0..MaxFares}

InitAddFlights ==
    /\ flights \in RawFareLists
    /\ rows = <<>>
    /\ called = FALSE

\* addFlights(departure, arrival, flights, tripType, flightDataResult) on an
\* empty flightDataResult.
AddFlights ==
    /\ ~called
    /\ \E tripType \in TripTypes :
          rows' = addFlights(IATA[1], IATA[2], Some(flights), tripType, <<>>).result
    /\ called' = TRUE
    /\ UNCHANGED flights

NextAddFlights == AddFlights /\ UNCHANGED <<workerVars, borrowed, statVars>>

InitNormalizer == InitAddFlights /\ InitWorker /\ InitIdleStatistics

SpecAddFlights == InitNormalizer /\ [][NextAddFlights]_vars

\* A fare entry that can be stored: a price, and a date with a run of digits.
complete(flight) ==
    /\ flight.Price.def
    /\ flight.Date.def
    /\ \E k \in 1..Len(flight.Date.val) : IsDigit(flight.Date.val[k])

\* C4: the batch holds a row for every complete fare entry and for no other:
\* every row has a price, and an entry without a price or without a digit run
\* in its Date is dropped.
C4_OnlyCompleteQuotes ==
    called => /\ Len(rows) = Cardinality({k \in 1..Len(flights) : complete(flights[k])})
              /\ \A k \in 1..Len(rows) : rows[k].price.def

(***************************************************************************)
(* JavaScript numbers, as exact fractions                                  *)
(***************************************************************************)
RECURSIVE gcd(_, _)
gcd(a, b) == IF b = 0 THEN a ELSE gcd(b, a % b)

abs(n) == IF n < 0 THEN 0 - n ELSE n

NaN == [kind |-> "NaN", num |-> 0, den |-> 1]
undefined == [kind |-> "undefined", num |-> 0, den |-> 1]

\* The number n/d, d # 0, in lowest terms with a positive denominator.
fraction(n, d) ==
    LET g == gcd(abs(n), abs(d))
        sign == IF d < 0 THEN 0 - 1 ELSE 1
    IN  [kind |-> "number", num |-> sign * (n \div g), den |-> sign * (d \div g)]

number(n) == fraction(n, 1)

\* Arithmetic on undefined or NaN gives NaN; so does 0/0.  A divisor here is a
\* length or 2, and a length is 0 only under a sum that is 0.
plus(a, b) ==
    IF a.kind = "number" /\ b.kind = "number"
    THEN fraction(a.num * b.den + b.num * a.den, a.den * b.den) ELSE NaN

minus(a, b) ==
    IF a.kind = "number" /\ b.kind = "number"
    THEN fraction(a.num * b.den - b.num * a.den, a.den * b.den) ELSE NaN

times(a, b) ==
    IF a.kind = "number" /\ b.kind = "number"
    THEN fraction(a.num * b.num, a.den * b.den) ELSE NaN

over(a, b) ==
    IF a.kind = "number" /\ b.kind = "number" /\ b.num # 0
    THEN fraction(a.num * b.den, a.den * b.num) ELSE NaN

less(a, b) == a.num * b.den < b.num * a.den

\* arr[k], k counted from 0: undefined outside the array.
at(arr, k) == IF 0 <= k /\ k < Len(arr) THEN arr[k + 1] ELSE undefined

\* prices.reduce((acc, curr) => acc + curr, 0)
RECURSIVE reduce(_, _, _)
reduce(prices, k, acc) ==
    IF k > Len(prices) THEN acc ELSE reduce(prices, k + 1, plus(acc, prices[k]))

\* prices.sort((a, b) => a - b): a consistent comparator, ascending order.
RECURSIVE insertSorted(_, _)
insertSorted(sorted, x) ==
    IF sorted = <<>> THEN <<x>>
    ELSE IF less(x, sorted[1]) THEN <<x>> \o sorted
    ELSE <<sorted[1]>> \o insertSorted(Tail(sorted), x)

RECURSIVE sortAscending(_)
sortAscending(prices) ==
    IF prices = <<>> THEN <<>>
    ELSE insertSorted(sortAscending(SubSeq(prices, 1, Len(prices) - 1)), prices[Len(prices)])

(***************************************************************************)
(* The statistics (analytics.js)                                           *)
(***************************************************************************)
prepPrices(rowsOfQuery) == [k \in 1..Len(rowsOfQuery) |-> number(rowsOfQuery[k].average)]

calcMean(prices) == over(reduce(prices, 1, number(0)), number(Len(prices)))

calcMedian(prices) ==
    LET sorted == sortAscending(prices)
        middle == Len(sorted) \div 2
    IN  IF Len(sorted) % 2 = 0
        THEN over(plus(at(sorted, middle - 1), at(sorted, middle)), number(2))
        ELSE at(sorted, middle)

\* The variance with the sum divided by n - 1 instead of 1 taken off the quotient.
calcVarianceBessel(prices, mean) ==
    LET squares == [k \in 1..Len(prices) |->
                       times(minus(prices[k], mean), minus(prices[k], mean))]
        sum == reduce(squares, 1, number(0))
    IN  over(sum, minus(number(Len(squares)), number(1)))

calcVariance(prices, mean) ==
    LET squares == [k \in 1..Len(prices) |->
                       times(minus(prices[k], mean), minus(prices[k], mean))]
        sum == reduce(squares, 1, number(0))
    IN  minus(over(sum, number(Len(squares))), number(1))

calcRange(prices) ==
    LET sorted == sortAscending(prices)
    IN  minus(at(sorted, Len(sorted) - 1), at(sorted, 0))

\* Math.sqrt(variance): NaN of NaN and of a negative number, and otherwise the
\* root of the fraction, kept as the fraction under the root sign.
calcStandardDeviation(variance) ==
    IF variance.kind # "number" \/ variance.num < 0 THEN NaN
    ELSE [kind |-> "sqrt", num |-> variance.num, den |-> variance.den]

getResults(rowsOfQuery) ==
    LET avgPrices == prepPrices(rowsOfQuery)
        mean == calcMean(avgPrices)
        median == calcMedian(avgPrices)
        variance == calcVariance(avgPrices, mean)
        range == calcRange(avgPrices)
        standardDeviation == calcStandardDeviation(variance)
    IN  <<[mean_price |-> mean, median_price |-> median, variance |-> variance,
           range |-> range, standard_deviation |-> standardDeviation]>>

\* The average prices a stored query may return.
Prices == {100 * k : k \in 1..MaxPrice}

PriceSeries == UNION {[1..n -> [average : Prices]] : n \in 0..MaxSeries}

InitStatistics ==
    /\ stats = <<>>
    /\ results = <<>>
    /\ spc = "idle"

\* getStatistics calls getData, which asks the pool for a connection.
GetStatistics ==
    /\ spc = "idle"
    /\ spc' = "getDataConnection"
    /\ UNCHANGED <<stats, results, borrowed>>

\* getData's pool.getConnection callback: throw err, or issue the query.
GetDataConnection ==
    /\ spc = "getDataConnection"
    /\ \E err \in BOOLEAN :
          IF err THEN spc' = "aborted" /\ borrowed' = borrowed
          ELSE spc' = "getDataQuery" /\ borrowed' = borrowed + 1
    /\ UNCHANGED <<stats, results>>

\* getData's query callback on success: release, resolve; getStatistics goes
\* on to getResults and returns.
GetDataResult ==
    /\ spc = "getDataQuery"
    /\ borrowed' = borrowed - 1
    /\ \E data \in PriceSeries :
          /\ stats' = data
          /\ results' = getResults(data)
    /\ spc' = "done"

\* getData's query callback on error: release, log, and JSON.parse of the
\* missing result throws out of the callback.
GetDataError ==
    /\ spc = "getDataQuery"
    /\ borrowed' = borrowed - 1
    /\ spc' = "aborted"
    /\ UNCHANGED <<stats, results>>

NextStatistics ==
    \/ GetStatistics /\ UNCHANGED <<workerVars, normVars>>
    \/ GetDataConnection /\ UNCHANGED <<workerVars, normVars>>
    \/ GetDataResult /\ UNCHANGED <<workerVars, normVars>>
    \/ GetDataError /\ UNCHANGED <<workerVars, normVars>>

InitAnalytics == InitStatistics /\ InitWorker /\ InitIdleNormalizer

SpecStatistics == InitAnalytics /\ [][NextStatistics]_vars

(***************************************************************************)
(* Properties of the statistics                                            *)
(***************************************************************************)
summaryFields(summary) ==
    {summary.mean_price, summary.median_price, summary.variance, summary.range,
     summary.standard_deviation}

\* C5: on an empty price series getStatistics returns a summary, and every
\* field of it is null or undefined, none is NaN.
C5_EmptySeriesAllNull ==
    (spc = "done" /\ stats = <<>>)
    => /\ Len(results) = 1
       /\ \A field \in summaryFields(results[1]) : field.kind = "undefined"

\* The series as a set of positions, and the order statistics over it.
sumOver(S) == LET RECURSIVE total(_)
                  total(T) == IF T = {} THEN 0
                              ELSE LET k == CHOOSE k \in T : TRUE
                                   IN  stats[k].average + total(T \ {k})
              IN  total(S)

\* The value at position p of the ascending order, p counted from 1.
orderStatistic(p) ==
    CHOOSE v \in {stats[k].average : k \in DOMAIN stats} :
        /\ Cardinality({k \in DOMAIN stats : stats[k].average < v}) < p
        /\ p <= Cardinality({k \in DOMAIN stats : stats[k].average <= v})

sumOfSquares(S, n, total) ==
    LET RECURSIVE squares(_)
        squares(T) == IF T = {} THEN 0
                      ELSE LET k == CHOOSE k \in T : TRUE
                           IN  (n * stats[k].average - total) * (n * stats[k].average - total)
                               + squares(T \ {k})
    IN  squares(S)

\* C7: on a non-empty series the summary is the arithmetic mean, the order
\* statistic median (the mean of the two middle values for an even length),
\* (the sum of the squared deviations from the mean)/n - 1, max - min, and the
\* square root of that variance (NaN when it is negative), whatever the order
\* of the rows; [100, 200, 300] in any order gives 200, 200, 20000/3 - 1, 200.
C7_Summary ==
    (spc = "done" /\ stats # <<>>)
    => LET n == Len(stats)
           total == sumOver(DOMAIN stats)
           r == results[1]
           values == {stats[k].average : k \in DOMAIN stats}
           max == CHOOSE v \in values : \A w \in values : w <= v
           min == CHOOSE v \in values : \A w \in values : v <= w
       IN  /\ Len(results) = 1
           /\ \A field \in {r.mean_price, r.median_price, r.variance, r.range} :
                 field.kind = "number" /\ field.den > 0
           /\ r.mean_price.num * n = total * r.mean_price.den
           /\ IF n % 2 = 1
              THEN r.median_price.num = orderStatistic((n + 1) \div 2) * r.median_price.den
              ELSE 2 * r.median_price.num
                      = (orderStatistic(n \div 2) + orderStatistic(n \div 2 + 1))
                          * r.median_price.den
           /\ (r.variance.num + r.variance.den) * n * n * n
                 = sumOfSquares(DOMAIN stats, n, total) * r.variance.den
           /\ r.range.num = (max - min) * r.range.den
           /\ IF r.variance.num < 0
              THEN r.standard_deviation.kind = "NaN"
              ELSE /\ r.standard_deviation.kind = "sqrt"
                   /\ r.standard_deviation.num = r.variance.num
                   /\ r.standard_deviation.den = r.variance.den
           /\ (n = 3 /\ values = {100, 200, 300})
              => /\ r.mean_price = [kind |-> "number", num |-> 200, den |-> 1]
                 /\ r.median_price = [kind |-> "number", num |-> 200, den |-> 1]
                 /\ r.variance = [kind |-> "number", num |-> 19997, den |-> 3]
                 /\ r.range = [kind |-> "number", num |-> 200, den |-> 1]

C7_Witness ==
    /\ spc = "done"
    /\ stats = <<[average |-> 300], [average |-> 100], [average |-> 200]>>
    /\ results[1].variance = [kind |-> "number", num |-> 19997, den |-> 3]

(***************************************************************************)
(* Properties of the collection run                                        *)
(***************************************************************************)
\* getFlightData has been entered for the current group and is over: it has
\* resolved, or an exception has ended it.
getFlightDataOver ==
    /\ pc \in {"storeDataConnection", "storeDataQuery", "aborted"}
    /\ failure # "getAirports"

lookupsOf(a, b) ==
    {k \in 1..Len(lookups) : {lookups[k].departure, lookups[k].arrival} = {a, b}}

\* C1: a round trip group without targets: once getFlightData is over it has
\* issued n*(n-1)/2 fare lookups, one for every unordered pair of airports.
C1_RoundTripAllPairs ==
    (getFlightDataOver /\ airportGroup.tripType = "RT" /\ airportGroup.targets = {})
    => LET n == Cardinality(selected(airportGroup))
       IN  /\ 2 * Len(lookups) = n * (n - 1)
           /\ \A a, b \in selected(airportGroup) :
                 a # b => Cardinality(lookupsOf(a, b)) = 1

\* C2: a round trip group with exactly one target T among its n airports: once
\* getFlightData is over it has issued n-1 lookups, one from every non-target
\* airport, each arriving at T.
C2_RoundTripOneTarget ==
    (/\ getFlightDataOver
     /\ airportGroup.tripType = "RT"
     /\ Cardinality(selected(airportGroup) \cap airportGroup.targets) = 1)
    => LET n == Cardinality(selected(airportGroup))
           T == CHOOSE t \in selected(airportGroup) \cap airportGroup.targets : TRUE
       IN  /\ Len(lookups) = n - 1
           /\ \A k \in 1..Len(lookups) : lookups[k].arrival = T
           /\ \A a \in selected(airportGroup) \ {T} :
                 Cardinality({k \in 1..Len(lookups) : lookups[k].departure = a}) = 1

\* C3: whatever a fare lookup produces, the run is not ended by it: no
\* exception escapes the handling of a lookup's answer.
C3_FailureIsolation == ~(pc = "aborted" /\ failure = "addFlights")

\* The planning loops of the current group have run to their end.
loopsFinished ==
    \/ i >= airportsLength
    \/ Len(airports) = 0
    \/ airports[(IF airportGroup.tripType = "RT" THEN 0 ELSE i) + 1].target = TRUE

\* C6: at most one fare lookup is in flight, and only while the run waits for
\* it; the group's batch insert is issued at most once, with no lookup in
\* flight and with the planning loops run to their end.
C6_Sequential ==
    /\ inFlight \in {0, 1}
    /\ inFlight = 1 <=> pc = "getFlights"
    /\ inserts \in {0, 1}
    /\ (pc \in {"storeDataConnection", "storeDataQuery"} \/ inserts = 1)
       => (inFlight = 0 /\ loopsFinished)
    /\ \A k \in 1..Len(lookups) :
          {lookups[k].departure, lookups[k].arrival} \subseteq selected(airportGroup)

C6_Witness ==
    /\ pc = "storeDataQuery"
    /\ groupIndex = 2
    /\ Len(lookups) >= 2
    /\ Len(flightDataResult) = 1

\* C8: for a group whose catalog query returns at most one airport, whatever
\* the trip type and the targets, getFlightData issues no fare lookup and
\* resolves with an empty list.
C8_SmallList ==
    (groupIndex > 0 /\ Cardinality(selected(airportGroup)) <= 1)
    => /\ lookups = <<>>
       /\ inFlight = 0
       /\ flightDataResult = <<>>
       /\ pc # "getFlights"
       /\ failure \notin {"getFlightData", "addFlights"}

C8_Witness ==
    /\ pc = "storeDataConnection"
    /\ Cardinality(selected(airportGroup)) = 1
    /\ airportGroup.targets = {}
    /\ airportGroup.tripType = "RT"
    /\ airports = <<>>

\* C9: a connection is out of the pool only while the one query it was taken
\* for is pending: none during a fare lookup, none once the run has ended.
C9_PoolDiscipline ==
    borrowed = IF pc \in {"getAirportsQuery", "storeDataQuery"} THEN 1 ELSE 0

\* C10: every fare lookup has two different airports, leaves from a
\* non-target airport and, when the group names targets, arrives at a target;
\* a group whose airports are all targets, or that names targets none of which
\* is among its airports, gets no lookup.
C10_LookupInvariant ==
    /\ \A k \in 1..Len(lookups) :
          /\ lookups[k].departure # lookups[k].arrival
          /\ lookups[k].departure \notin airportGroup.targets
          /\ hasTargets(airportGroup) => lookups[k].arrival \in airportGroup.targets
    /\ (\/ selected(airportGroup) \subseteq airportGroup.targets
        \/ (hasTargets(airportGroup) /\ selected(airportGroup) \cap airportGroup.targets = {}))
       => lookups = <<>>

C10_Witness ==
    /\ airportGroup.tripType = "OW"
    /\ Cardinality(selected(airportGroup) \cap airportGroup.targets) = 2
    /\ Len(lookups) = 2
    /\ pc = "storeDataQuery"

====
